---- MODULE Spec2Model ----
(***************************************************************************)
(* State-machine model of IssuuCrawler (src/pdf/scrapers/issuu_crawler.py): *)
(* download_pdf's retry loop, _open_page_with_strategy's escalation over    *)
(* WAIT_STRATEGIES, the two extractors (_extract_pdf_url_from_dom and       *)
(* _get_pdf_url) and _download_file.  The browser, the page and the HTTP    *)
(* transport are the environment: every call into them returns one of the   *)
(* outcomes the library can produce, chosen nondeterministically.           *)
(***************************************************************************)
EXTENDS Integers, Sequences, FiniteSets, TLC

VARIABLES
    max_retries,     \* self.max_retries
    attempt,         \* loop variable of download_pdf (0 before the first iteration)
    pc,              \* position of download_pdf
    result,          \* "running", or the value download_pdf returned
    sessions,        \* attempts whose browser is still open
    strategy_index,  \* 1-based index into WAIT_STRATEGIES
    page,            \* the attempt's Page object and what it currently shows
    pdf_url,         \* local pdf_url of download_pdf
    download_ok,     \* value returned by _download_file in this attempt
    last_dl,         \* how the last _download_file call ended
    file,            \* what is at save_path
    requests,        \* requests.get calls issued so far
    downloads,       \* _download_file calls made so far
    backoffs,        \* inter-attempt waits (lines 562-565) performed so far
    records          \* how each finished attempt ended (the attempt log)

vars == <<max_retries, attempt, pc, result, sessions, strategy_index, page,
          pdf_url, download_ok, last_dl, file, requests, downloads, backoffs,
          records>>

\* Largest max_retries explored.
MaxRetries == 3

\* WAIT_STRATEGIES of config/crawler_config.py.
WAIT_STRATEGIES == <<"domcontentloaded", "load", "networkidle">>

-----------------------------------------------------------------------------
(* URLs.  A URL string is modelled by its parse: scheme, network location,  *)
(* whether the path starts with "/", and the path segments.                 *)

Ref(s, n, r, p) == [scheme |-> s, netloc |-> n, rooted |-> r, path |-> p]

\* Python's None and the empty string: both are falsy in "if pdf_url".
None == Ref("", "", FALSE, <<>>)

Truthy(u) == u # None

\* The url argument of download_pdf.
SourceUrl == Ref("https", "issuu.com", TRUE, <<"user", "docs", "report">>)

\* The address the page shows when a click on the download button navigates.
ClickedUrl == Ref("https", "issuu.com", TRUE, <<"user", "docs", "report", "download">>)

Shapes == {"abs", "root", "proto", "path", "dot"}

\* A link to <tag>/file.pdf written in one of the shapes a page can use.
MkRef(shape, tag) ==
    CASE shape = "abs"   -> Ref("https", "cdn.issuu.com", TRUE, <<tag, "file.pdf">>)
      [] shape = "root"  -> Ref("", "", TRUE, <<tag, "file.pdf">>)
      [] shape = "proto" -> Ref("", "cdn.issuu.com", TRUE, <<tag, "file.pdf">>)
      [] shape = "path"  -> Ref("", "", FALSE, <<tag, "file.pdf">>)
      [] shape = "dot"   -> Ref("", "", FALSE, <<"..", tag, "file.pdf">>)

\* str.startswith('/'): no scheme, and either "//host..." or "/path".
StartsWithSlash(u) == u.scheme = "" /\ (u.netloc # "" \/ u.rooted)

IsAbsolute(u) == u.scheme # "" /\ u.netloc # ""

RECURSIVE ResolveDots(_, _)
\* urljoin's dot-segment removal: ".." pops, "." is skipped.
ResolveDots(segs, acc) ==
    IF segs = <<>> THEN acc
    ELSE LET s == Head(segs) IN
         IF s = ".." THEN
            ResolveDots(Tail(segs), IF acc = <<>> THEN acc
                                    ELSE SubSeq(acc, 1, Len(acc) - 1))
         ELSE IF s = "." THEN ResolveDots(Tail(segs), acc)
         ELSE ResolveDots(Tail(segs), Append(acc, s))

\* urllib.parse.urljoin(base, ref).
urljoin(base, ref) ==
    IF ref = None THEN base
    ELSE IF ref.scheme # "" THEN ref
    ELSE IF ref.netloc # "" THEN Ref(base.scheme, ref.netloc, ref.rooted, ref.path)
    ELSE IF ref.rooted THEN
        Ref(base.scheme, base.netloc, TRUE, ResolveDots(ref.path, <<>>))
    ELSE
        LET dir == IF base.path = <<>> THEN <<>>
                   ELSE SubSeq(base.path, 1, Len(base.path) - 1)
        IN Ref(base.scheme, base.netloc, TRUE, ResolveDots(dir \o ref.path, <<>>))

NormalizeAllRelative(url, u) == IF IsAbsolute(u) THEN u ELSE urljoin(url, u)

\* Lines 535-537: only a URL that starts with "/" is joined to the source URL.
Normalize(url, u) == IF StartsWithSlash(u) THEN urljoin(url, u) ELSE u

\* 'pdf' in s.lower() / 'download' in s.lower(), by segment.
PdfSegments == {"file.pdf", "pdf"}
DownloadSegments == {"download", "Download"}
MentionsPdfOrDownload(u) ==
    \E i \in 1..Len(u.path) : u.path[i] \in PdfSegments \cup DownloadSegments

-----------------------------------------------------------------------------
(* What page.content() returns.                                             *)

Content(r, p, d, a) == [raises |-> r, pdf_urls |-> p, doc_id |-> d, data_urls |-> a]

BlankContent == Content(FALSE, <<>>, "", <<>>)

PdfA == Ref("https", "cdn.issuu.com", TRUE, <<"text", "file.pdf">>)
PdfB == Ref("https", "static.issuu.com", TRUE, <<"other", "file.pdf">>)
DataPlain == Ref("https", "issuu.com", TRUE, <<"embed", "config">>)
DataRel == Ref("", "", FALSE, <<"docs", "download">>)

\* All snapshots: page.content() raises, or the text holds these matches of
\* the three patterns, in document order.
Contents ==
    {Content(TRUE, <<>>, "", <<>>), Content(TRUE, <<PdfA>>, "", <<>>)} \cup
    {Content(FALSE, p, d, a) :
        p \in {<<>>, <<PdfA>>, <<PdfB, PdfA>>},
        d \in {"", "d1"},
        a \in {<<>>, <<DataPlain, DataRel>>}}

SampleContents ==
    {Content(TRUE, <<PdfA>>, "", <<>>), BlankContent,
     Content(FALSE, <<PdfA>>, "", <<>>),
     Content(FALSE, <<>>, "", <<DataPlain, DataRel>>)}

ApiUrl(doc_id) == Ref("https", "issuu.com", TRUE, <<"api", "v0", "document", doc_id>>)

RECURSIVE FirstDataUrl(_)
\* Lines 241-244: the first data-*url value mentioning pdf or download.
FirstDataUrl(urls) ==
    IF urls = <<>> THEN None
    ELSE IF MentionsPdfOrDownload(Head(urls)) THEN Head(urls)
    ELSE FirstDataUrl(Tail(urls))

ExtractLastPdfUrl(c) ==
    IF c.raises THEN None
    ELSE IF c.pdf_urls # <<>> THEN c.pdf_urls[Len(c.pdf_urls)]
    ELSE IF c.doc_id # "" THEN ApiUrl(c.doc_id)
    ELSE FirstDataUrl(c.data_urls)

ExtractDocIdFirst(c) ==
    IF c.raises THEN None
    ELSE IF c.doc_id # "" THEN ApiUrl(c.doc_id)
    ELSE IF c.pdf_urls # <<>> THEN Head(c.pdf_urls)
    ELSE FirstDataUrl(c.data_urls)

\* _extract_pdf_url_from_dom: three pattern scans over page.content().
ExtractPdfUrlFromDom(c) ==
    IF c.raises THEN None
    ELSE IF c.pdf_urls # <<>> THEN Head(c.pdf_urls)
    ELSE IF c.doc_id # "" THEN ApiUrl(c.doc_id)
    ELSE FirstDataUrl(c.data_urls)

-----------------------------------------------------------------------------
(* What the locators and page.evaluate of _get_pdf_url meet.                *)

Heuristics == 1..6
Tag == <<"anchor", "embed", "button", "viewer", "state", "link">>

\* out[i]: "none" (not visible, or no attribute), "raise" (the query raised),
\* "match"; for the download button also "click_raise" (visible, click raised).
Dom(o, s, n) == [out |-> o, shape |-> s, click_navigates |-> n]

BlankDom == Dom([i \in Heuristics |-> "none"], "abs", FALSE)

Outs == {o \in [Heuristics -> {"none", "raise", "match", "click_raise"}] :
            \A i \in Heuristics : o[i] = "click_raise" => i = 3}

\* The shape only matters when an attribute is returned, the navigation only
\* when the click is performed.
Doms ==
    {Dom(o, s, n) : o \in Outs, s \in Shapes, n \in BOOLEAN} \cap
    {d \in [out : Outs, shape : Shapes, click_navigates : BOOLEAN] :
        /\ (\A i \in Heuristics \ {3} : d.out[i] # "match") => d.shape = "abs"
        /\ d.out[3] # "match" => ~d.click_navigates}

OnlyMatch(i, s) == Dom([j \in Heuristics |-> IF j = i THEN "match" ELSE "none"], s, FALSE)

SampleDoms ==
    {BlankDom, OnlyMatch(1, "abs"), OnlyMatch(1, "path"), OnlyMatch(2, "root"),
     OnlyMatch(3, "abs"),
     Dom([j \in Heuristics |-> IF j = 5 THEN "raise" ELSE IF j = 6 THEN "match" ELSE "none"],
         "proto", FALSE)}

\* page.url once the download button was clicked.
AddressAfterClick(p, d) == IF d.click_navigates THEN ClickedUrl ELSE p.url

\* What heuristic i returns when it matches.
HeuristicUrl(p, d, i) == IF i = 3 THEN AddressAfterClick(p, d) ELSE MkRef(d.shape, Tag[i])

RECURSIVE ChainLast(_, _, _, _)
ChainLast(p, d, i, best) ==
    IF i > 6 THEN best
    ELSE ChainLast(p, d, i + 1,
                   IF d.out[i] = "match"
                   THEN [url |-> HeuristicUrl(p, d, i), by |-> i, tried |-> i,
                         clicked |-> best.clicked \/ i = 3]
                   ELSE [best EXCEPT !.tried = i,
                                     !.clicked = @ \/ d.out[i] = "click_raise"])

RECURSIVE Chain(_, _, _, _)
\* Lines 268-369: methods 1..6 in order, each inside its own try/except.
Chain(p, d, i, clicked) ==
    IF i > 6 THEN [url |-> None, by |-> 0, tried |-> 6, clicked |-> clicked]
    ELSE IF d.out[i] = "match"
         THEN [url |-> HeuristicUrl(p, d, i), by |-> i, tried |-> i,
               clicked |-> clicked \/ i = 3]
         ELSE Chain(p, d, i + 1, clicked \/ d.out[i] = "click_raise")

GetPdfUrlLastMatch(p, d) ==
    IF Truthy(p.pdf_url)
    THEN [url |-> p.pdf_url, by |-> 0, tried |-> 0, clicked |-> FALSE]
    ELSE ChainLast(p, d, 1, [url |-> None, by |-> 0, tried |-> 0, clicked |-> FALSE])

RECURSIVE ChainAbortOnRaise(_, _, _, _)
ChainAbortOnRaise(p, d, i, clicked) ==
    IF i > 6 THEN [url |-> None, by |-> 0, tried |-> 6, clicked |-> clicked]
    ELSE IF d.out[i] = "match"
         THEN [url |-> HeuristicUrl(p, d, i), by |-> i, tried |-> i,
               clicked |-> clicked \/ i = 3]
         ELSE IF d.out[i] \in {"raise", "click_raise"}
              THEN [url |-> None, by |-> 0, tried |-> i,
                    clicked |-> clicked \/ d.out[i] = "click_raise"]
              ELSE ChainAbortOnRaise(p, d, i + 1, clicked)

GetPdfUrlAbortOnRaise(p, d) ==
    IF Truthy(p.pdf_url)
    THEN [url |-> p.pdf_url, by |-> 0, tried |-> 0, clicked |-> FALSE]
    ELSE ChainAbortOnRaise(p, d, 1, FALSE)

GetPdfUrlClickFirst(p, d) ==
    IF Truthy(p.pdf_url)
    THEN [url |-> p.pdf_url, by |-> 0, tried |-> 0, clicked |-> FALSE]
    ELSE IF d.out[3] = "match"
         THEN [url |-> HeuristicUrl(p, d, 3), by |-> 3, tried |-> 3, clicked |-> TRUE]
         ELSE Chain(p, d, 1, d.out[3] = "click_raise")

GetPdfUrlClickNeedsNavigation(p, d) ==
    IF Truthy(p.pdf_url)
    THEN [url |-> p.pdf_url, by |-> 0, tried |-> 0, clicked |-> FALSE]
    ELSE Chain(p, [d EXCEPT !.out[3] = IF @ = "match" /\ ~d.click_navigates
                                        THEN "click_raise" ELSE @], 1, FALSE)

GetPdfUrlStashLast(p, d) ==
    LET e == Chain(p, d, 1, FALSE)
    IN IF Truthy(e.url) \/ ~Truthy(p.pdf_url) THEN e
       ELSE [e EXCEPT !.url = p.pdf_url]

\* _get_pdf_url: the URL stashed on the page, else the chain.
GetPdfUrlOf(p, d) ==
    IF Truthy(p.pdf_url)
    THEN [url |-> p.pdf_url, by |-> 0, tried |-> 0, clicked |-> FALSE]
    ELSE Chain(p, d, 1, FALSE)

-----------------------------------------------------------------------------
(* The page object.                                                         *)

\* pdf_url is the attribute line 187/196 sets; nav is how the last page.goto
\* ended; extraction is what _get_pdf_url did on this page.
Page(stash, c, d, u, e, n) ==
    [pdf_url |-> stash, content |-> c, dom |-> d, url |-> u, extraction |-> e,
     nav |-> n]

NoExtraction == [url |-> None, by |-> 0, tried |-> 0, clicked |-> FALSE]

\* No page object (before context.new_page(), after the browser is gone).
NoPage == Page(None, BlankContent, BlankDom, None, NoExtraction, "")

\* context.new_page(): about:blank, nothing stashed.
NewPage ==
    Page(None, BlankContent, BlankDom, Ref("about", "", FALSE, <<"blank">>),
         NoExtraction, "")

-----------------------------------------------------------------------------
(* _download_file.                                                          *)

RequestOutcomes == {"ok", "http_error", "proxy_error", "timeout", "error"}
SaveOutcomes == {"ok", "makedirs_error", "open_error", "write_error", "stream_timeout"}

AfterRequestRetry(outcome) ==
    IF outcome = "ok" THEN "save"
    ELSE IF outcome = "timeout" THEN "download_file" ELSE "after_download"

\* Lines 403-410 and the handlers 438-451: any failure returns False at once.
AfterRequest(outcome) == IF outcome = "ok" THEN "save" ELSE "after_download"

FileOnRequestOpenFirst(f, outcome) == IF outcome = "http_error" THEN "partial" ELSE f

\* Lines 403-410 run before open(): save_path is untouched by the request.
FileOnRequest(f, outcome) == f

\* Lines 413-427: open(save_path, 'wb') truncates, chunks are written as they
\* arrive, and no handler removes the file.
FileOnSave(f, outcome) ==
    CASE outcome = "ok" -> "complete"
      [] outcome \in {"makedirs_error", "open_error"} -> f
      [] OTHER -> "partial"

-----------------------------------------------------------------------------
(* Control decisions of download_pdf and _open_page_with_strategy.          *)

AfterProbeNoReturn(url, k) ==
    IF k < Len(WAIT_STRATEGIES) THEN "goto"
    ELSE IF Truthy(url) THEN "get_pdf_url" ELSE "load_failed"

AfterProbeAlwaysLoaded(url, k) ==
    IF Truthy(url) \/ k = Len(WAIT_STRATEGIES) THEN "get_pdf_url" ELSE "goto"

\* Lines 181-197: a URL from the probe ends the escalation with True; without
\* one the loop goes on, and after the last strategy falls through to False.
AfterProbe(url, k) ==
    IF Truthy(url) THEN "get_pdf_url"
    ELSE IF k < Len(WAIT_STRATEGIES) THEN "goto" ELSE "load_failed"

AfterTimeoutNoFinalProbe(k) == IF k < Len(WAIT_STRATEGIES) THEN "probe" ELSE "load_failed"

\* Lines 176-197: a timeout is followed by a scan of what has loaded, after
\* the last strategy as after the others.
AfterTimeout(k) == "probe"

AfterNavErrorProbe(k) == "probe"

\* Lines 199-204: any other exception moves on to the next strategy, or
\* returns False after the last one.
AfterNavError(k) == IF k < Len(WAIT_STRATEGIES) THEN "goto" ELSE "load_failed"

NextStrategyStuck(k) == k

\* Line 164: enumerate(WAIT_STRATEGIES) moves to the next strategy.
NextStrategy(k) == k + 1

AfterExtractionAlwaysDownload(u) == "download_file"

\* Lines 533 and 549-550: without a URL the attempt only warns.
AfterExtraction(u) == IF Truthy(u) THEN "download_file" ELSE "close"

LoopRunsOnce(a, m) == a = 0 \/ a < m

LoopStopsEarly(a, m) == a < m - 1

\* Line 487: range(1, self.max_retries + 1) has a next value.
LoopContinues(a, m) == a < m

AfterDownloadKeepGoing(ok) == "close"

\* Lines 542-552: True returns at once, False falls through to browser.close().
AfterDownload(ok) == IF ok THEN "return_true" ELSE "close"

sync_playwright_exit_leak(s) == s

\* Leaving the "with sync_playwright()" block stops the driver and with it
\* every browser it launched.
sync_playwright_exit(s) == {}

\* browser.close().
browser_close(s, a) == s \ {a}

-----------------------------------------------------------------------------
(* Initial states.                                                          *)

InitWith(retries, files) ==
    /\ max_retries \in retries
    /\ attempt = 0
    /\ pc = "loop"
    /\ result = "running"
    /\ sessions = {}
    /\ strategy_index = 1
    /\ page = NoPage
    /\ pdf_url = None
    /\ download_ok = FALSE
    /\ last_dl = "none"
    /\ file \in files
    /\ requests = 0
    /\ downloads = 0
    /\ backoffs = 0
    /\ records = <<>>

Init == InitWith(0..MaxRetries, {"absent", "other"})

\* Every max_retries, nothing at save_path: the runs whose end is studied.
InitFair == InitWith(0..MaxRetries, {"absent"})

\* max_retries is not validated (line 102): a negative value too.
InitAny == InitWith(-1..MaxRetries, {"absent"})

\* One attempt, to study the page and the extractors in full.
InitPage == InitWith({1}, {"absent"})

-----------------------------------------------------------------------------
(* Actions of download_pdf.                                                 *)

\* Line 487: for attempt in range(1, self.max_retries + 1); 567-572 after it.
LoopHead ==
    /\ pc = "loop"
    /\ IF LoopContinues(attempt, max_retries)
       THEN /\ attempt' = attempt + 1
            /\ pc' = "delay"
            /\ UNCHANGED result
       ELSE /\ pc' = "done"
            /\ result' = "failure"
            /\ UNCHANGED attempt
    /\ download_ok' = FALSE
    /\ last_dl' = "none"
    /\ UNCHANGED <<max_retries, sessions, strategy_index, page, pdf_url, file,
                   requests, downloads, backoffs, records>>

\* Line 493: self._random_delay().
RandomDelay ==
    /\ pc = "delay"
    /\ pc' = "launch"
    /\ UNCHANGED <<max_retries, attempt, result, sessions, strategy_index, page,
                   pdf_url, download_ok, last_dl, file, requests, downloads,
                   backoffs, records>>

\* Lines 495-500: start the driver and launch the browser, or raise.
Launch ==
    /\ pc = "launch"
    /\ \E ok \in BOOLEAN :
         IF ok THEN /\ sessions' = sessions \cup {attempt}
                    /\ pc' = "setup"
               ELSE /\ sessions' = sessions
                    /\ pc' = "except"
    /\ UNCHANGED <<max_retries, attempt, result, strategy_index, page, pdf_url,
                   download_ok, last_dl, file, requests, downloads, backoffs,
                   records>>

\* Lines 503-519 and 162: context, page, routes, default timeout; or raise.
Setup ==
    /\ pc = "setup"
    /\ \E ok \in BOOLEAN :
         IF ok THEN /\ page' = NewPage
                    /\ strategy_index' = 1
                    /\ pc' = "goto"
               ELSE /\ pc' = "except"
                    /\ UNCHANGED <<page, strategy_index>>
    /\ UNCHANGED <<max_retries, attempt, result, sessions, pdf_url, download_ok,
                   last_dl, file, requests, downloads, backoffs, records>>

\* Lines 164-174 and 199-204: page.goto with the current strategy.
Goto(contents) ==
    /\ pc = "goto"
    /\ \E nav \in {"ok", "timeout", "error"}, c \in contents :
         CASE nav = "ok" ->
                /\ page' = [page EXCEPT !.content = c, !.url = SourceUrl, !.nav = nav]
                /\ pc' = "get_pdf_url"
                /\ UNCHANGED <<strategy_index, records>>
           [] nav = "timeout" ->
                LET next == AfterTimeout(strategy_index)
                IN /\ page' = [page EXCEPT !.content = c, !.url = SourceUrl, !.nav = nav]
                   /\ pc' = next
                   /\ records' = IF next = "load_failed"
                                 THEN Append(records, "NavigationTimeout") ELSE records
                   /\ UNCHANGED strategy_index
           [] nav = "error" ->
                LET next == AfterNavError(strategy_index)
                IN /\ page' = [page EXCEPT !.nav = nav]
                   /\ pc' = next
                   /\ strategy_index' = IF next = "goto" THEN NextStrategy(strategy_index)
                                        ELSE strategy_index
                   /\ records' = IF next = "load_failed"
                                 THEN Append(records, "NavigationError") ELSE records
    /\ UNCHANGED <<max_retries, attempt, result, sessions, pdf_url, download_ok,
                   last_dl, file, requests, downloads, backoffs>>

\* Lines 176-197: after a timeout, scan what has loaded.
Probe ==
    /\ pc = "probe"
    /\ LET url == ExtractPdfUrlFromDom(page.content)
           next == AfterProbe(url, strategy_index)
       IN /\ page' = IF Truthy(url) THEN [page EXCEPT !.pdf_url = url] ELSE page
          /\ pc' = next
          /\ strategy_index' = IF next = "goto" THEN NextStrategy(strategy_index)
                               ELSE strategy_index
          /\ records' = IF next = "load_failed"
                        THEN Append(records, "NavigationTimeout") ELSE records
    /\ UNCHANGED <<max_retries, attempt, result, sessions, pdf_url, download_ok,
                   last_dl, file, requests, downloads, backoffs>>

\* Lines 524-527: browser.close() and continue, straight to the next iteration.
LoadFailed ==
    /\ pc = "load_failed"
    /\ sessions' = sync_playwright_exit(browser_close(sessions, attempt))
    /\ page' = NoPage
    /\ pc' = "loop"
    /\ UNCHANGED <<max_retries, attempt, result, strategy_index, pdf_url,
                   download_ok, last_dl, file, requests, downloads, backoffs,
                   records>>

\* Line 531: pdf_url = self._get_pdf_url(page).
GetPdfUrl(doms) ==
    /\ pc = "get_pdf_url"
    /\ \E d \in doms :
         LET e == GetPdfUrlOf(page, d)
         IN /\ pdf_url' = e.url
            /\ page' = [page EXCEPT !.dom = d, !.extraction = e,
                          !.url = IF e.clicked /\ d.out[3] = "match"
                                  THEN AddressAfterClick(page, d) ELSE @]
    /\ pc' = "found"
    /\ UNCHANGED <<max_retries, attempt, result, sessions, strategy_index,
                   download_ok, last_dl, file, requests, downloads, backoffs,
                   records>>

\* Lines 533-542 and 549-550: normalise and call _download_file, or warn.
Found ==
    /\ pc = "found"
    /\ IF AfterExtraction(pdf_url) = "download_file"
       THEN /\ pdf_url' = Normalize(SourceUrl, pdf_url)
            /\ downloads' = downloads + 1
            /\ pc' = "download_file"
            /\ UNCHANGED records
       ELSE /\ pc' = "close"
            /\ records' = Append(records, "ExtractionExhausted")
            /\ UNCHANGED <<pdf_url, downloads>>
    /\ UNCHANGED <<max_retries, attempt, result, sessions, strategy_index, page,
                   download_ok, last_dl, file, requests, backoffs>>

\* Lines 403-410: requests.get(...) and raise_for_status().
DownloadRequest ==
    /\ pc = "download_file"
    /\ \E outcome \in RequestOutcomes :
         /\ requests' = requests + 1
         /\ last_dl' = outcome
         /\ file' = FileOnRequest(file, outcome)
         /\ pc' = AfterRequest(outcome)
    /\ download_ok' = FALSE
    /\ UNCHANGED <<max_retries, attempt, result, sessions, strategy_index, page,
                   pdf_url, downloads, backoffs, records>>

\* Lines 413-436: makedirs, open, write the chunks, return True.
Save ==
    /\ pc = "save"
    /\ \E outcome \in SaveOutcomes :
         /\ last_dl' = outcome
         /\ file' = FileOnSave(file, outcome)
         /\ download_ok' = (outcome = "ok")
    /\ pc' = "after_download"
    /\ UNCHANGED <<max_retries, attempt, result, sessions, strategy_index, page,
                   pdf_url, requests, downloads, backoffs, records>>

\* Line 542: the branch on what _download_file returned.
Downloaded ==
    /\ pc = "after_download"
    /\ pc' = AfterDownload(download_ok)
    /\ records' = IF download_ok THEN records ELSE Append(records, "DownloadFailed")
    /\ UNCHANGED <<max_retries, attempt, result, sessions, strategy_index, page,
                   pdf_url, download_ok, last_dl, file, requests, downloads,
                   backoffs>>

\* Lines 543-548: browser.close() and return True.
ReturnTrue ==
    /\ pc = "return_true"
    /\ sessions' = sync_playwright_exit(browser_close(sessions, attempt))
    /\ page' = NoPage
    /\ result' = "success"
    /\ pc' = "done"
    /\ UNCHANGED <<max_retries, attempt, strategy_index, pdf_url, download_ok,
                   last_dl, file, requests, downloads, backoffs, records>>

\* Line 552 and the end of the with block.
Close ==
    /\ pc = "close"
    /\ sessions' = sync_playwright_exit(browser_close(sessions, attempt))
    /\ page' = NoPage
    /\ pc' = "backoff"
    /\ UNCHANGED <<max_retries, attempt, result, strategy_index, pdf_url,
                   download_ok, last_dl, file, requests, downloads, backoffs,
                   records>>

\* Lines 554-559: an exception leaves the with block and is logged.
Except ==
    /\ pc = "except"
    /\ sessions' = sync_playwright_exit(sessions)
    /\ page' = NoPage
    /\ records' = Append(records, IF sessions = {} THEN "LaunchError" ELSE "SetupError")
    /\ pc' = "backoff"
    /\ UNCHANGED <<max_retries, attempt, result, strategy_index, pdf_url,
                   download_ok, last_dl, file, requests, downloads, backoffs>>

\* Lines 562-565: wait before the next attempt, unless this was the last.
Backoff ==
    /\ pc = "backoff"
    /\ backoffs' = IF attempt < max_retries THEN backoffs + 1 ELSE backoffs
    /\ pc' = "loop"
    /\ UNCHANGED <<max_retries, attempt, result, sessions, strategy_index, page,
                   pdf_url, download_ok, last_dl, file, requests, downloads,
                   records>>

Next ==
    \/ LoopHead
    \/ RandomDelay
    \/ Launch
    \/ Setup
    \/ Goto(SampleContents)
    \/ Probe
    \/ LoadFailed
    \/ GetPdfUrl(SampleDoms)
    \/ Found
    \/ DownloadRequest
    \/ Save
    \/ Downloaded
    \/ ReturnTrue
    \/ Close
    \/ Except
    \/ Backoff

Spec == Init /\ [][Next]_vars

NextPage ==
    \/ LoopHead
    \/ RandomDelay
    \/ Launch
    \/ Setup
    \/ Goto(Contents)
    \/ Probe
    \/ LoadFailed
    \/ GetPdfUrl(Doms)
    \/ Found
    \/ Close
    \/ Except
    \/ Backoff

\* download_pdf is sequential and every call into the browser and into
\* requests returns: a step that can be taken is taken.
SpecFair == InitFair /\ [][Next]_vars /\ WF_vars(Next)

\* download_pdf for every max_retries, those without any attempt included.
SpecAny == InitAny /\ [][Next]_vars

\* One attempt over every page, up to the call of _download_file.
SpecPage == InitPage /\ [][NextPage]_vars

-----------------------------------------------------------------------------
(* Properties.                                                              *)

C2_OneBackoffBetweenAttempts ==
    /\ pc = "delay" => backoffs = attempt - 1
    /\ (pc = "done" /\ result = "failure" /\ max_retries >= 1)
          => backoffs = max_retries - 1

\* C3: once an extraction has yielded a URL on this page (the timeout probe
\* stashed one, or _get_pdf_url returned one), no further page.goto is made in
\* the attempt and the strategy index no longer moves.
C3_NoEscalationAfterExtraction ==
    /\ []((Truthy(page.pdf_url) \/ Truthy(page.extraction.url))
            => pc \notin {"goto", "probe"})
    /\ [][(Truthy(page.pdf_url) \/ Truthy(page.extraction.url))
            => (pc' # "goto" /\ strategy_index' = strategy_index)]_vars

\* C3 witness: the probe after the first strategy's timeout found a URL, and
\* the attempt is downloading without having tried the second strategy.
C3_Witness ==
    /\ pc = "download_file" /\ Truthy(page.pdf_url) /\ page.nav = "timeout"
    /\ strategy_index = 1 /\ attempt = 2

\* The lowest-index heuristic that matches on d, 0 when none does.
LowestMatch(d) ==
    IF \E i \in Heuristics : d.out[i] = "match"
    THEN CHOOSE i \in Heuristics :
            d.out[i] = "match" /\ \A j \in Heuristics : d.out[j] = "match" => i <= j
    ELSE 0

LowestMatchUrl(p) ==
    IF LowestMatch(p.dom) = 0 THEN None
    ELSE HeuristicUrl(p, p.dom, LowestMatch(p.dom))

\* C4 as stated: whatever the page, the URL the extraction yields is the
\* result of the lowest-index heuristic that matches.
C4_LowestIndexHeuristicWins ==
    pc = "found" => pdf_url = LowestMatchUrl(page)

\* C4 as amended: when no timeout probe stashed a URL on the page, the URL
\* the extraction yields is the result of the lowest-index matching heuristic
\* (a heuristic that raises does not match), and none when no heuristic
\* matches; a stashed URL is returned as it is, with no heuristic consulted.
C4_LowestIndexWinsUnlessStashed ==
    /\ (pc = "found" /\ ~Truthy(page.pdf_url)) =>
          /\ pdf_url = LowestMatchUrl(page)
          /\ page.extraction.by = LowestMatch(page.dom)
    /\ (pc = "found" /\ Truthy(page.pdf_url)) =>
          /\ pdf_url = page.pdf_url
          /\ page.extraction.tried = 0

\* C4 witness: a direct anchor and an embedded frame both match, and the
\* anchor's href is the result.
C4_Witness ==
    /\ pc = "found" /\ ~Truthy(page.pdf_url)
    /\ page.dom.out[1] = "match" /\ page.dom.out[2] = "match"
    /\ page.dom.out[6] = "match" /\ page.dom.shape = "root"
    /\ pdf_url = MkRef("root", "anchor")

\* C5: the URL passed to _download_file is absolute, resolved against the
\* source URL, whatever shape the extraction returned.
C5_DownloadUrlIsAbsolute ==
    pc = "download_file" =>
        /\ IsAbsolute(pdf_url)
        /\ \/ pdf_url = NormalizeAllRelative(SourceUrl, page.extraction.url)
           \/ pdf_url = page.extraction.url

\* No locator or script of _get_pdf_url matches on d.
NoElementMatches(d) == \A i \in Heuristics : d.out[i] = "none"

\* The snapshot is readable and holds a bare absolute .pdf URL.
HasBarePdfUrl(c) == ~c.raises /\ c.pdf_urls # <<>>

\* C6 as stated: on a page where no element-based heuristic matches and whose
\* snapshot holds a bare .pdf URL, the extraction resolves to that URL, after
\* a successful navigation as after a timeout.
C6_BareUrlResolved ==
    (pc = "found" /\ NoElementMatches(page.dom) /\ HasBarePdfUrl(page.content))
        => pdf_url = Head(page.content.pdf_urls)

\* C6 as amended: on such a page the extraction resolves to the first match
\* of the probe's .pdf URL pattern in the snapshot when the navigation timed
\* out (the timeout probe scans page.content()); after a successful
\* navigation no content scan runs and the extraction yields no URL.
C6_BareUrlResolvedOnlyAfterTimeout ==
    (pc = "found" /\ NoElementMatches(page.dom) /\ HasBarePdfUrl(page.content))
        => /\ page.nav = "timeout" =>
                /\ pdf_url = Head(page.content.pdf_urls)
                /\ page.pdf_url = Head(page.content.pdf_urls)
           /\ page.nav = "ok" => pdf_url = None

\* C6 witness: the navigation timed out on a page with two bare URLs and no
\* matching element, and the first URL is the result.
C6_Witness ==
    /\ pc = "found" /\ page.nav = "timeout" /\ NoElementMatches(page.dom)
    /\ page.content.pdf_urls = <<PdfB, PdfA>>
    /\ pdf_url = PdfB

\* C7: every _download_file call issues exactly one requests.get, whatever
\* its outcome, so requests never outnumber the calls nor the calls the
\* attempts.
C7_OneRequestPerDownloadCall ==
    /\ downloads <= attempt
    /\ pc = "download_file" => requests = downloads - 1
    /\ pc # "download_file" => requests = downloads

\* C7 witness: two calls, the second ended by a transport timeout, two requests.
C7_Witness ==
    /\ pc = "after_download" /\ last_dl = "timeout"
    /\ downloads = 2 /\ requests = 2 /\ attempt = 2

\* C8: a download whose response status is not 2xx reports failure and
\* leaves save_path as it was.
C8_HttpErrorLeavesNoFile ==
    /\ [][(pc = "download_file" /\ last_dl' = "http_error")
             => (file' = file /\ ~download_ok' /\ pc' = "after_download")]_vars
    /\ []((pc = "after_download" /\ last_dl = "http_error") => ~download_ok)
    /\ [][(pc = "after_download" /\ last_dl = "http_error")
             => (pc' = "close" /\ file' = file)]_vars

\* C8 witness: the status error came back, and nothing is at save_path.
C8_Witness ==
    /\ pc = "after_download" /\ last_dl = "http_error"
    /\ file = "absent" /\ ~download_ok

\* C9: save_path never holds a partially written file; what this program
\* left there is the complete body of a successful download.
C9_NoPartialFile ==
    /\ file # "partial"
    /\ (pc = "after_download" /\ ~download_ok) => file \in {"absent", "other", "complete"}

\* C10: each attempt's browser is its own and is gone before the next attempt
\* starts and before download_pdf returns, on every path: at most one is open,
\* it is the current attempt's, and none is open between attempts or at the end.
C10_SessionPerAttemptReleased ==
    /\ Cardinality(sessions) <= 1
    /\ sessions \subseteq {attempt}
    /\ pc \in {"loop", "delay", "launch", "backoff", "done"} => sessions = {}
    /\ pc \in {"setup", "goto", "probe", "load_failed", "get_pdf_url", "found",
               "download_file", "save", "after_download", "return_true", "close"}
          => sessions = {attempt}

\* C10 witness: the second attempt raised with its browser open, and no
\* browser is left.
C10_Witness ==
    /\ pc = "backoff" /\ attempt = 2 /\ Len(records) = 2
    /\ records[2] = "SetupError" /\ sessions = {}

\* How an attempt can fail, as the attempt log names it.
FailureKinds ==
    {"NavigationTimeout", "NavigationError", "ExtractionExhausted",
     "DownloadFailed", "LaunchError", "SetupError"}

\* C11: every kind of failure is retried alike: a failed attempt is followed
\* by the next one while attempts remain, so download_pdf returns failure
\* only after exactly max_retries failed attempts, whatever their kinds.
C11_EveryFailureIsRetried ==
    /\ [](result = "failure" =>
            /\ attempt = max_retries
            /\ Len(records) = max_retries
            /\ \A i \in 1..Len(records) : records[i] \in FailureKinds)
    /\ []((attempt >= 1 /\ Len(records) = attempt) =>
            /\ pc \in {"load_failed", "close", "backoff", "loop", "done"}
            /\ pc = "done" => result = "failure")
    /\ [][(pc = "loop" /\ attempt < max_retries)
            => (attempt' = attempt + 1 /\ pc' = "delay" /\ result' = "running")]_vars
    /\ [][(pc \in {"load_failed", "backoff"}) => (pc' = "loop")]_vars
    /\ [][(pc = "close" /\ Len(records) = attempt) => (pc' = "backoff")]_vars

\* C11 witness: three attempts failed in three different ways (timeout, no
\* URL, download), and the call returned failure.
C11_Witness ==
    /\ pc = "done" /\ result = "failure" /\ max_retries = 3
    /\ records = <<"NavigationTimeout", "ExtractionExhausted", "DownloadFailed">>

\* C13: when every call into the browser and into requests returns,
\* download_pdf eventually returns.
C13_Terminates == <>(pc = "done")

\* C13 witness: the call returned failure after three attempts whose last one
\* went through all three strategies.
C13_Witness ==
    /\ pc = "done" /\ result = "failure" /\ attempt = 3
    /\ strategy_index = 3 /\ Len(records) = 3
    /\ records[3] = "NavigationTimeout"

Exhausted == pc = "close" /\ attempt >= 1 /\ Len(records) = attempt
             /\ records[attempt] = "ExtractionExhausted"

\* C14 as stated: an attempt ends without a resolved URL only once every
\* strategy of WAIT_STRATEGIES has been navigated in that attempt.
C14_ExhaustedOnlyAfterLastStrategy ==
    Exhausted => strategy_index = Len(WAIT_STRATEGIES)

\* C14, amended: an attempt ends without a resolved URL only after a page.goto
\* of that attempt succeeded, with whichever strategy, and all six methods of
\* _get_pdf_url found nothing on that page; once a navigation has succeeded
\* no other strategy is navigated in the attempt, and the strategy advances
\* only from a navigation error or from a timeout whose scan found nothing.
C14_ExhaustedAfterFirstLoadedPage ==
    /\ [](Exhausted => /\ page.nav = "ok"
                       /\ ~Truthy(page.pdf_url)
                       /\ page.extraction.tried = 6
                       /\ ~Truthy(page.extraction.url)
                       /\ \A i \in Heuristics : page.dom.out[i] # "match")
    /\ [][(pc \in {"get_pdf_url", "found"}) =>
            (strategy_index' = strategy_index /\ pc' \notin {"goto", "probe"})]_vars
    /\ [][(pc # "setup" /\ strategy_index' # strategy_index) =>
            /\ strategy_index' = strategy_index + 1
            /\ \/ pc = "goto" /\ page'.nav = "error"
               \/ pc = "probe" /\ page.nav = "timeout" /\ ~Truthy(page'.pdf_url)]_vars

C14_Witness == Exhausted /\ strategy_index = 1 /\ page.nav = "ok" /\ attempt = 2

\* C15: a page.goto that times out, with the last strategy as with the
\* others, is followed by the scan of what has loaded before anything else is
\* navigated; a URL from the scan ends the escalation at that strategy and the
\* attempt goes on to call _download_file with it; without one the next
\* strategy is navigated, or after the last one the attempt ends as a load
\* failure.
C15_TimeoutRecovery ==
    /\ [][(pc = "goto" /\ page'.nav = "timeout") =>
            (pc' = "probe" /\ strategy_index' = strategy_index)]_vars
    /\ [](pc = "probe" => page.nav = "timeout" /\ ~Truthy(page.pdf_url))
    /\ [][(pc = "probe") =>
            /\ (~page.content.raises /\ page.content.pdf_urls # <<>>) =>
                   Truthy(page'.pdf_url)
            /\ IF Truthy(page'.pdf_url)
               THEN pc' = "get_pdf_url" /\ strategy_index' = strategy_index
               ELSE IF strategy_index < Len(WAIT_STRATEGIES)
                    THEN pc' = "goto" /\ strategy_index' = strategy_index + 1
                    ELSE /\ pc' = "load_failed"
                         /\ records' = Append(records, "NavigationTimeout")]_vars
    /\ [][(pc \in {"get_pdf_url", "found"} /\ Truthy(page.pdf_url)) =>
            /\ page'.pdf_url = page.pdf_url
            /\ pc = "get_pdf_url" => (pc' = "found" /\ pdf_url' = page.pdf_url)
            /\ pc = "found" => /\ pc' = "download_file"
                               /\ downloads' = downloads + 1
                               /\ pdf_url' = Normalize(SourceUrl, page.pdf_url)]_vars

C15_Witness ==
    /\ pc = "download_file"
    /\ page.nav = "timeout"
    /\ strategy_index = Len(WAIT_STRATEGIES)
    /\ page.pdf_url = PdfA
    /\ pdf_url = PdfA

\* C16 as stated: the scan run after a timeout resolves a URL exactly when the
\* six methods of _get_pdf_url would on the same page, and the same URL.
C16_ProbeIsGetPdfUrl ==
    (pc = "found" /\ page.nav = "timeout") =>
        page.pdf_url = LowestMatchUrl(page)

\* C16, amended: the scan run after a timeout is _extract_pdf_url_from_dom, a
\* pattern scan of page.content() that does not use the six methods: it yields
\* the first bare .pdf URL of the text, else the API URL built from a
\* documentId, else the first data-*url value mentioning pdf or download, and
\* nothing when page.content() raises; what the six methods would find on the
\* page plays no part in it.
C16_ProbeIsContentScan ==
    /\ [][(pc = "probe") =>
            LET c == page.content
                stash == page'.pdf_url
            IN /\ c.raises => stash = None
               /\ (~c.raises /\ c.pdf_urls # <<>>) => stash = c.pdf_urls[1]
               /\ (~c.raises /\ c.pdf_urls = <<>> /\ c.doc_id # "") =>
                      stash = ApiUrl(c.doc_id)
               /\ (~c.raises /\ c.pdf_urls = <<>> /\ c.doc_id = "") =>
                      /\ Truthy(stash) =>
                            \E i \in 1..Len(c.data_urls) :
                               /\ stash = c.data_urls[i]
                               /\ MentionsPdfOrDownload(stash)
                               /\ \A j \in 1..(i - 1) :
                                     ~MentionsPdfOrDownload(c.data_urls[j])
                      /\ ~Truthy(stash) =>
                            \A i \in 1..Len(c.data_urls) :
                               ~MentionsPdfOrDownload(c.data_urls[i])]_vars
    /\ []((pc = "found" /\ Truthy(page.pdf_url)) =>
             /\ page.nav = "timeout"
             /\ pdf_url = page.pdf_url
             /\ page.extraction.tried = 0)

C16_Witness ==
    /\ pc = "found"
    /\ page.nav = "timeout"
    /\ page.content = Content(FALSE, <<>>, "d1", <<>>)
    /\ page.dom = OnlyMatch(1, "root")
    /\ pdf_url = ApiUrl("d1")

\* C17: a page.goto that fails with an exception other than a timeout is not
\* followed by a scan of the page: with a strategy left the next one is
\* navigated, and after the last one the attempt ends as a load failure, with
\* no call of _get_pdf_url or _download_file in it.
C17_NavErrorEscalatesWithoutProbe ==
    /\ [][(pc = "goto" /\ page'.nav = "error") =>
            /\ page'.pdf_url = page.pdf_url
            /\ page'.content = page.content
            /\ IF strategy_index < Len(WAIT_STRATEGIES)
               THEN pc' = "goto" /\ strategy_index' = strategy_index + 1
               ELSE /\ pc' = "load_failed"
                    /\ strategy_index' = strategy_index
                    /\ records' = Append(records, "NavigationError")]_vars
    /\ [](pc = "probe" => page.nav # "error")
    /\ [](pc = "load_failed" =>
             /\ page.extraction = NoExtraction
             /\ ~Truthy(page.pdf_url)
             /\ Len(records) = attempt
             /\ strategy_index = Len(WAIT_STRATEGIES))
    /\ [][(pc = "load_failed") =>
            (pc' = "loop" /\ downloads' = downloads /\ requests' = requests
             /\ pdf_url' = pdf_url /\ file' = file)]_vars

C17_Witness ==
    /\ pc = "load_failed"
    /\ page.nav = "error"
    /\ strategy_index = Len(WAIT_STRATEGIES)
    /\ attempt = 2
    /\ records[2] = "NavigationError"

\* Where download_pdf is within an attempt: 1 the delay, 2 loading and
\* extracting, 3 _download_file, 4 winding the attempt up.
Stage(p) ==
    CASE p = "delay" -> 1
      [] p \in {"launch", "setup", "goto", "probe", "load_failed", "get_pdf_url",
                "found"} -> 2
      [] p \in {"download_file", "save", "after_download"} -> 3
      [] p \in {"return_true", "close", "except", "backoff"} -> 4
      [] OTHER -> 0

C19_ClickOnlyAfterSideEffectFree ==
    /\ page.extraction.clicked =>
          /\ page.dom.out[1] # "match"
          /\ page.dom.out[2] # "match"
          /\ page.dom.out[3] \in {"match", "click_raise"}
          /\ page.extraction.tried >= 3
          /\ ~Truthy(page.pdf_url)
    /\ (page.dom.out[1] = "match" \/ page.dom.out[2] = "match") =>
          /\ ~page.extraction.clicked
          /\ page.url = SourceUrl
          /\ page.extraction.by \in {0, 1, 2}
    /\ page.url = ClickedUrl => page.extraction.clicked

C19_Witness ==
    /\ pc = "found"
    /\ page.extraction.clicked
    /\ page.dom.out[1] = "raise"
    /\ page.dom.out[2] = "none"
    /\ page.dom.out[3] = "match"
    /\ page.url = ClickedUrl
    /\ pdf_url = ClickedUrl

Raised(d, i) == d.out[i] \in {"raise", "click_raise"}

\* C20: an exception inside one method of _get_pdf_url counts as that method
\* finding nothing: the methods after it are still tried in order, the call
\* returns to download_pdf without raising, and it returns None only when each
\* of the six methods either found nothing or raised.
C20_HeuristicFailureIsNoMatch ==
    /\ []((pc = "found" /\ ~Truthy(page.pdf_url)) =>
             LET d == page.dom
                 e == page.extraction
             IN /\ (pdf_url = None) <=> (\A i \in Heuristics : d.out[i] # "match")
                /\ e.by = LowestMatch(d)
                /\ e.tried = IF e.by = 0 THEN 6 ELSE e.by
                /\ \A i \in Heuristics :
                      (Raised(d, i) /\ \E j \in (i + 1)..6 : d.out[j] = "match") =>
                          (Truthy(pdf_url) /\ e.by # 0))
    /\ [][(pc = "get_pdf_url") => (pc' = "found" /\ records' = records)]_vars

C20_Witness ==
    /\ pc = "found"
    /\ page.dom.out[1] = "raise"
    /\ page.dom.out[3] = "click_raise"
    /\ page.dom.out[5] = "raise"
    /\ page.extraction.by = 6
    /\ pdf_url = MkRef(page.dom.shape, "link")

\* C21: once the scan after a timeout has stashed a URL on the page, that URL
\* is what _get_pdf_url returns in the attempt: none of the six methods is
\* evaluated, the download button is not clicked and the page keeps its
\* address, also when method 1 would return another URL on the same page.
C21_StashedUrlBypassesChain ==
    /\ [][(pc = "get_pdf_url" /\ Truthy(page.pdf_url)) =>
            /\ pc' = "found"
            /\ pdf_url' = page.pdf_url
            /\ page'.url = page.url
            /\ page'.pdf_url = page.pdf_url]_vars
    /\ []((Truthy(page.pdf_url) /\ pc \notin {"probe", "get_pdf_url"}) =>
             /\ page.extraction.url = page.pdf_url
             /\ page.extraction.by = 0
             /\ page.extraction.tried = 0
             /\ ~page.extraction.clicked
             /\ page.url = SourceUrl)

C21_Witness ==
    /\ pc = "found"
    /\ page.pdf_url = PdfA
    /\ pdf_url = PdfA
    /\ page.dom.out[1] = "match"
    /\ page.dom.out[3] = "match"
    /\ page.dom.click_navigates
    /\ LowestMatchUrl(page) # PdfA

ButtonClicked(p) ==
    /\ ~Truthy(p.pdf_url)
    /\ p.dom.out[1] # "match"
    /\ p.dom.out[2] # "match"
    /\ p.dom.out[3] = "match"

\* C22: when methods 1 and 2 return nothing and the download button is
\* visible and its click does not raise, _get_pdf_url returns page.url as it
\* is after the click, the source URL itself when the click did not navigate,
\* and methods 4, 5 and 6 are not evaluated, whatever they would find.
C22_ClickReturnsCurrentAddress ==
    (pc = "found" /\ ButtonClicked(page)) =>
        /\ Truthy(pdf_url)
        /\ pdf_url = page.url
        /\ page.dom.click_navigates => pdf_url = ClickedUrl
        /\ ~page.dom.click_navigates => pdf_url = SourceUrl
        /\ page.extraction.by = 3
        /\ page.extraction.tried = 3
        /\ page.extraction.clicked

C22_Witness ==
    /\ pc = "found"
    /\ ButtonClicked(page)
    /\ ~page.dom.click_navigates
    /\ page.dom.out[4] = "match"
    /\ page.dom.out[6] = "match"
    /\ pdf_url = SourceUrl

\* C23: with max_retries <= 0 the loop body of download_pdf never runs: the
\* call returns failure with no delay, session, page, navigation, extraction,
\* request, download or wait before retrying.
C23_NoAttemptWithoutRetries ==
    /\ [](max_retries <= 0 =>
             /\ pc \in {"loop", "done"}
             /\ pc = "done" => result = "failure"
             /\ attempt = 0
             /\ sessions = {}
             /\ page = NoPage
             /\ ~Truthy(pdf_url)
             /\ requests = 0
             /\ downloads = 0
             /\ backoffs = 0
             /\ records = <<>>
             /\ file = "absent")
    /\ [][(max_retries <= 0 /\ pc = "loop") =>
            (pc' = "done" /\ result' = "failure")]_vars

C23_Witness ==
    /\ max_retries < 0
    /\ pc = "done"
    /\ result = "failure"
    /\ attempt = 0

=============================================================================
